---------------------------- MODULE Spec2Model ----------------------------
(***************************************************************************)
(* Model of the English-football arbitrage finder:                         *)
(*   src/notifier.py  the scheduled Telegram notifier (main and helpers)   *)
(*   src/app.py       the Streamlit page (one script run = one scan)       *)
(*                                                                         *)
(* Conventions                                                             *)
(*  - A Python str is a tuple of one-character strings, so that lower(),   *)
(*    strip(), title(), `in` and startswith() are computed, not assumed.   *)
(*  - A Python float is an exact rational <<n, d>> (d > 0, lowest terms).  *)
(*    Binary rounding error of IEEE doubles is not modelled.  float("inf") *)
(*    and NaN are the pairs Inf and NaN, whose denominator is 0.           *)
(*  - A Python dict that is iterated is a tuple of <<key, value>> pairs in *)
(*    insertion order; commission_map, which is only looked up, is a       *)
(*    function from bookmaker names.                                        *)
(*  - None is the value None.                                              *)
(***************************************************************************)
EXTENDS Integers, Sequences, FiniteSets, TLC

\* None is a tuple no str and no float equals
None == <<"None">>

----------------------------------------------------------------------------
(* Python str operations used by the two programs *)

UpperAlpha == <<"A","B","C","D","E","F","G","H","I","J","K","L","M",
                "N","O","P","Q","R","S","T","U","V","W","X","Y","Z">>
LowerAlpha == <<"a","b","c","d","e","f","g","h","i","j","k","l","m",
                "n","o","p","q","r","s","t","u","v","w","x","y","z">>

IsUpper(c) == \E i \in 1..26 : UpperAlpha[i] = c
IsLower(c) == \E i \in 1..26 : LowerAlpha[i] = c
lower_char(c) == IF IsUpper(c) THEN LowerAlpha[CHOOSE i \in 1..26 : UpperAlpha[i] = c] ELSE c
upper_char(c) == IF IsLower(c) THEN UpperAlpha[CHOOSE i \in 1..26 : LowerAlpha[i] = c] ELSE c

\* str.lower()
lower(s) == [i \in 1..Len(s) |-> lower_char(s[i])]

\* str.title(): a letter is upper-cased when it starts a word, lower-cased otherwise
title(s) ==
    [i \in 1..Len(s) |->
        IF i = 1 \/ ~(IsUpper(s[i-1]) \/ IsLower(s[i-1]))
        THEN upper_char(s[i]) ELSE lower_char(s[i])]

\* str.strip(): leading and trailing blanks removed
RECURSIVE lstrip(_)
lstrip(s) == IF s # <<>> /\ Head(s) = " " THEN lstrip(Tail(s)) ELSE s
RECURSIVE rstrip(_)
rstrip(s) == IF s # <<>> /\ s[Len(s)] = " " THEN rstrip(SubSeq(s, 1, Len(s) - 1)) ELSE s
strip(s) == rstrip(lstrip(s))

\* Python `k in s` for strings
contains(s, k) == \E i \in 0..(Len(s) - Len(k)) : SubSeq(s, i + 1, i + Len(k)) = k

\* str.startswith
startswith(s, k) == Len(s) >= Len(k) /\ SubSeq(s, 1, Len(k)) = k

----------------------------------------------------------------------------
(* Exact rationals standing for Python floats *)

\* The element of a one-element set.  Only({ e(a) : a \in {x} }) is e(x) with x
\* evaluated once, whatever the number of places e uses it in.
Only(S) == CHOOSE r \in S : TRUE

Abs(x) == IF x < 0 THEN -x ELSE x

RECURSIVE GCD(_, _)
GCD(a, b) == IF b = 0 THEN a ELSE GCD(b, a % b)

\* The rational n/d in lowest terms with a positive denominator
Q(n, d) ==
    Only({ Only({ IF e < 0 THEN <<-(m \div g), -(e \div g)>> ELSE <<m \div g, e \div g>> :
                    g \in {GCD(Abs(m), Abs(e))} }) :
            m \in {n}, e \in {d} })

QInt(n) == <<n, 1>>
QAdd(x, y) == Only({ Q(a[1] * b[2] + b[1] * a[2], a[2] * b[2]) : a \in {x}, b \in {y} })
QNeg(x) == Only({ <<-a[1], a[2]>> : a \in {x} })
QSub(x, y) == QAdd(x, QNeg(y))
QMul(x, y) == Only({ Q(a[1] * b[1], a[2] * b[2]) : a \in {x}, b \in {y} })
QInv(x) == Only({ Q(a[2], a[1]) : a \in {x} })
QDiv(x, y) == QMul(x, QInv(y))
QLt(x, y) == \E a \in {x}, b \in {y} : a[1] * b[2] < b[1] * a[2]
QLe(x, y) == \E a \in {x}, b \in {y} : a[1] * b[2] <= b[1] * a[2]
QMax(x, y) == Only({ IF QLt(a, b) THEN b ELSE a : a \in {x}, b \in {y} })
QMin(x, y) == Only({ IF QLt(b, a) THEN b ELSE a : a \in {x}, b \in {y} })
QZero == QInt(0)
QOne == QInt(1)

RECURSIVE QSum(_)
QSum(xs) == IF xs = <<>> THEN QZero ELSE QAdd(Head(xs), QSum(Tail(xs)))

\* floor of a rational
QFloor(x) == Only({ a[1] \div a[2] : a \in {x} })

\* Python round(x): nearest integer, a tie going to the even neighbour
round_int(x) ==
    Only({ Only({ IF QLt(r, Q(1, 2)) THEN a[1] \div a[2]
                  ELSE IF QLt(Q(1, 2), r) THEN (a[1] \div a[2]) + 1
                  ELSE IF (a[1] \div a[2]) % 2 = 0 THEN a[1] \div a[2] ELSE (a[1] \div a[2]) + 1 :
                    r \in {QSub(a, QInt(a[1] \div a[2]))} }) :
            a \in {x} })

\* Python round(x, k) for k decimals, Pow10 being 10^k
round_dec(x, Pow10) == Q(round_int(QMul(x, QInt(Pow10))), Pow10)

----------------------------------------------------------------------------
(* Python dicts: tuples of <<key, value>> in insertion order *)

dict_has(d, k) == \E i \in 1..Len(d) : d[i][1] = k
dict_get(d, k) == d[CHOOSE i \in 1..Len(d) : d[i][1] = k][2]
dict_set(d, k, v) ==
    IF dict_has(d, k)
    THEN [i \in 1..Len(d) |-> IF d[i][1] = k THEN <<k, v>> ELSE d[i]]
    ELSE Append(d, <<k, v>>)
dict_keys(d) == [i \in 1..Len(d) |-> d[i][1]]

RECURSIVE Concat(_)
Concat(ss) == IF ss = <<>> THEN <<>> ELSE Head(ss) \o Concat(Tail(ss))

----------------------------------------------------------------------------
(* String literals of the programs *)

s_draw    == <<"d","r","a","w">>
s_Draw    == <<"D","r","a","w">>
s_Home    == <<"H","o","m","e">>
s_Away    == <<"A","w","a","y">>
s_over    == <<"o","v","e","r">>
s_under   == <<"u","n","d","e","r">>
s_Over    == <<"O","v","e","r">>
s_Under   == <<"U","n","d","e","r">>
s_corner  == <<"c","o","r","n","e","r">>
s_vs      == <<" ","v","s"," ">>
s_h2h     == <<"h","2","h">>
s_totals  == <<"t","o","t","a","l","s">>
s_totals_corners == <<"t","o","t","a","l","s","_","c","o","r","n","e","r","s">>
s_corners == <<"c","o","r","n","e","r","s">>
s_total_corners  == <<"t","o","t","a","l","_","c","o","r","n","e","r","s">>
s_corners_totals == <<"c","o","r","n","e","r","s","_","t","o","t","a","l","s">>

\* the market keys both corners extractors accept
CORNER_MARKET_KEYS == {s_totals, s_totals_corners, s_corners, s_total_corners, s_corners_totals}

TARGET_BOOK_KEYWORDS ==
    { <<"p","a","d","d","y"," ","p","o","w","e","r">>,
      <<"p","a","d","d","y","p","o","w","e","r">>,
      <<"b","e","t","f","a","i","r">>,
      <<"s","k","y"," ","b","e","t">>,
      <<"s","k","y","b","e","t">> }

\* (name or "")
or_empty(name) == IF name = None THEN <<>> ELSE name

is_target_book(name) ==
    LET n == lower(or_empty(name))
    IN  \E k \in TARGET_BOOK_KEYWORDS : contains(n, k)

\* str.replace(old, new) for a non-empty old: leftmost occurrences, left to right
RECURSIVE replace(_, _, _)
replace(s, old, new) ==
    IF s = <<>> THEN <<>>
    ELSE IF startswith(s, old) THEN new \o replace(SubSeq(s, Len(old) + 1, Len(s)), old, new)
    ELSE <<Head(s)>> \o replace(Tail(s), old, new)

\* str.split(","): the pieces between the commas, empty pieces kept
RECURSIVE split_from(_, _, _)
split_from(s, cur, acc) ==
    IF s = <<>> THEN Append(acc, cur)
    ELSE IF Head(s) = "," THEN split_from(Tail(s), <<>>, Append(acc, cur))
    ELSE split_from(Tail(s), Append(cur, Head(s)), acc)
split_comma(s) == split_from(s, <<>>, <<>>)

----------------------------------------------------------------------------
(* notifier.py: the allowed-bookmakers filter (lines 46-73) *)

s_ladbrook   == <<"l","a","d","b","r","o","o","k">>
s_ladbroke   == <<"l","a","d","b","r","o","k","e">>
s_ladbrooks  == <<"l","a","d","b","r","o","o","k","s">>
s_ladbrokes  == <<"l","a","d","b","r","o","k","e","s">>
s_uni_bet    == <<"u","n","i"," ","b","e","t">>
s_unibet     == <<"u","n","i","b","e","t">>
s_bet365     == <<"b","e","t","3","6","5">>
s_william_hill == <<"w","i","l","l","i","a","m"," ","h","i","l","l">>
s_williamhill  == <<"w","i","l","l","i","a","m","h","i","l","l">>
s_will_hill  == <<"w","i","l","l"," ","h","i","l","l">>
s_pinnacle   == <<"p","i","n","n","a","c","l","e">>
s_pinny      == <<"p","i","n","n","y">>
s_coral      == <<"c","o","r","a","l">>

DEFAULT_ALLOWED_BOOKS ==
    << <<"B","e","t","3","6","5">>,
       <<"L","a","d","b","r","o","k","e","s">>,
       <<"W","i","l","l","i","a","m"," ","H","i","l","l">>,
       <<"P","i","n","n","a","c","l","e">>,
       <<"U","n","i","b","e","t">>,
       <<"C","o","r","a","l">> >>

norm(name) ==
    LET n0 == lower(strip(or_empty(name)))
        n1 == replace(replace(n0, s_ladbrook, s_ladbroke), s_ladbrooks, s_ladbrokes)
    IN  replace(n1, s_uni_bet, s_unibet)

\* the dict as the pairs <<canon, variants>> in the order of the literal
ALLOWED_BOOKS_CANON ==
    << <<s_bet365, {s_bet365}>>,
       <<s_ladbrokes, {s_ladbroke, s_ladbrokes}>>,
       <<s_william_hill, {s_william_hill, s_williamhill, s_will_hill}>>,
       <<s_pinnacle, {s_pinnacle, s_pinny}>>,
       <<s_unibet, {s_unibet, s_uni_bet}>>,
       <<s_coral, {s_coral}>> >>

\* raw is the value of ALLOWED_BOOKMAKERS, <<>> when it is not set
parse_allowed_env(raw) ==
    LET r == strip(raw)
    IN  IF r = <<>>
        THEN { norm(DEFAULT_ALLOWED_BOOKS[i]) : i \in 1..Len(DEFAULT_ALLOWED_BOOKS) }
        ELSE LET xs == split_comma(r)
             IN  { norm(xs[i]) : i \in { j \in 1..Len(xs) : strip(xs[j]) # <<>> } }

\* is_allowed without the look-up of the variants (lines 70-72)
is_allowed_direct(name, allowed_norm) == norm(name) \in allowed_norm

is_allowed(name, allowed_norm) ==
    LET ln == norm(name)
    IN  \/ ln \in allowed_norm
        \/ \E i \in 1..Len(ALLOWED_BOOKS_CANON) :
              /\ ln \in ALLOWED_BOOKS_CANON[i][2]
              /\ ALLOWED_BOOKS_CANON[i][1] \in allowed_norm

\* bk.get("title") or bk.get("key"): an absent or empty title falls back to the key
book_name_of(bk) == IF bk.title = None \/ bk.title = <<>> THEN bk.key ELSE bk.title

\* f"{home} vs {away}"
match_str_of(home, away) == home \o s_vs \o away

----------------------------------------------------------------------------
(* notifier.py: extract_h2h *)

\* the (name, price, book) triples in the order the three nested loops visit them
h2h_offers(ev, market_key) ==
    Concat([b \in 1..Len(ev.bookmakers) |->
        LET bk == ev.bookmakers[b] IN
        Concat([m \in 1..Len(bk.markets) |->
            LET mk == bk.markets[m] IN
            IF mk.key # market_key THEN <<>>
            ELSE [o \in 1..Len(mk.outcomes) |->
                    [name |-> mk.outcomes[o].name,
                     price |-> mk.outcomes[o].price,
                     book |-> book_name_of(bk)]]])])

\* if name not in best or price > best[name][0]: best[name] = (price, book_name)
RECURSIVE best_fold(_, _)
best_fold(offers, best) ==
    IF offers = <<>> THEN best
    ELSE LET o == Head(offers)
             upd == IF ~dict_has(best, o.name) \/ QLt(dict_get(best, o.name)[1], o.price)
                    THEN dict_set(best, o.name, <<o.price, o.book>>)
                    ELSE best
         IN  best_fold(Tail(offers), upd)

\* for k,v in best.items(): the if/elif chain filling name_map
RECURSIVE name_map_fold(_, _, _, _, _, _)
name_map_fold(items, home, away, kHome, kAway, name_map) ==
    IF items = <<>> THEN name_map
    ELSE LET k == Head(items)[1]
             v == Head(items)[2]
             low == lower(k)
             upd == IF contains(low, s_draw) THEN dict_set(name_map, s_Draw, v)
                    ELSE IF home # None /\ home # <<>> /\ contains(low, lower(home))
                         THEN dict_set(name_map, kHome, v)
                    ELSE IF away # None /\ away # <<>> /\ contains(low, lower(away))
                         THEN dict_set(name_map, kAway, v)
                    ELSE name_map
         IN  name_map_fold(Tail(items), home, away, kHome, kAway, upd)

\* an extractor's (None, []) result
NoOutcomes == [match |-> None, outcomes |-> <<>>]

\* extract_h2h returning the outcomes it could resolve when one of the three is missing
extract_h2h_keeps_partial(ev) ==
    LET home == ev.home_team
        away == ev.away_team
        best == best_fold(h2h_offers(ev, s_h2h), <<>>)
        name_map == name_map_fold(best, home, away, s_Home, s_Away, <<>>)
        part(k) == IF dict_has(name_map, k)
                   THEN << <<k, dict_get(name_map, k)[1], dict_get(name_map, k)[2]>> >>
                   ELSE <<>>
    IN  [match |-> match_str_of(home, away),
         outcomes |-> part(s_Home) \o part(s_Draw) \o part(s_Away)]

extract_h2h(ev) ==
    LET home == ev.home_team
        away == ev.away_team
        best == best_fold(h2h_offers(ev, s_h2h), <<>>)
        name_map == name_map_fold(best, home, away, s_Home, s_Away, <<>>)
    IN  IF ~(dict_has(name_map, s_Home) /\ dict_has(name_map, s_Draw) /\ dict_has(name_map, s_Away))
        THEN NoOutcomes
        ELSE [match |-> match_str_of(home, away),
              outcomes |-> << <<s_Home, dict_get(name_map, s_Home)[1], dict_get(name_map, s_Home)[2]>>,
                              <<s_Draw, dict_get(name_map, s_Draw)[1], dict_get(name_map, s_Draw)[2]>>,
                              <<s_Away, dict_get(name_map, s_Away)[1], dict_get(name_map, s_Away)[2]>> >>]

----------------------------------------------------------------------------
(* notifier.py: extract_corners_ou *)

\* f"{name.title()} {point}" if point is not None else name.title().  The text of
\* the number is kept as the number: str() of two different floats differs.
fmt_label(name, point) == <<name, point>>

\* k.lower().startswith(prefix) for a label k: the label's text begins with its name
label_startswith(label, prefix) == startswith(lower(label[1]), prefix)

\* str(m.get("outcomes", "")): the text of every outcome's fields
str_outcomes(mk) ==
    Concat([o \in 1..Len(mk.outcomes) |->
        or_empty(mk.outcomes[o].name) \o <<" ">> \o mk.outcomes[o].description \o <<" ">>])

\* " ".join([key, str(outcomes), title]).lower()
corner_blob(bk, mk) ==
    lower(mk.key \o <<" ">> \o str_outcomes(mk) \o <<" ">> \o or_empty(bk.title))

\* app.py lines 268-274: the app's text_blob also holds the bookmaker's key (last_update,
\* a timestamp, is left out)
app_corner_blob(bk, mk) ==
    lower(mk.key \o <<" ">> \o str_outcomes(mk) \o <<" ">> \o bk.key \o <<" ">> \o or_empty(bk.title))

\* the Over/Under outcomes the loops of lines 115-135 reach, in order; app tells
\* whether the loops are those of app.py (lines 261-285), which differ in the blob
corner_offers_with(ev, app) ==
    Concat([b \in 1..Len(ev.bookmakers) |->
        LET bk == ev.bookmakers[b] IN
        Concat([m \in 1..Len(bk.markets) |->
            LET mk == bk.markets[m] IN
            IF mk.key \notin CORNER_MARKET_KEYS THEN <<>>
            ELSE IF ~contains(IF app THEN app_corner_blob(bk, mk) ELSE corner_blob(bk, mk), s_corner)
                 THEN <<>>
            ELSE Concat([o \in 1..Len(mk.outcomes) |->
                    LET name == strip(or_empty(mk.outcomes[o].name)) IN
                    IF lower(name) \notin {s_over, s_under} THEN <<>>
                    ELSE << [name |-> name,
                             price |-> mk.outcomes[o].price,
                             point |-> mk.outcomes[o].point,
                             book |-> book_name_of(bk)] >>])])])

corner_offers(ev) == corner_offers_with(ev, FALSE)
app_corner_offers(ev) == corner_offers_with(ev, TRUE)

\* a line_seen that is set once: if point is not None and line_seen is None
corner_line_keep_first(point, line_seen) ==
    IF point # None /\ line_seen = None THEN point ELSE line_seen

\* lines 132-133: if point is not None: line_seen = point
corner_line(point, line_seen) == IF point # None THEN point ELSE line_seen

\* lines 129-135: the running (line_seen, best_ou)
RECURSIVE corner_fold(_, _)
corner_fold(offers, acc) ==
    IF offers = <<>> THEN acc
    ELSE LET o == Head(offers)
             label == IF o.point # None THEN fmt_label(title(o.name), o.point)
                      ELSE fmt_label(title(o.name), None)
             line == corner_line(o.point, acc.line_seen)
             best == IF ~dict_has(acc.best_ou, label) \/ QLt(dict_get(acc.best_ou, label)[1], o.price)
                     THEN dict_set(acc.best_ou, label, <<o.price, o.book>>)
                     ELSE acc.best_ou
         IN  corner_fold(Tail(offers), [line_seen |-> line, best_ou |-> best])

\* lines 136-146, given the folded state
corner_pick(match_str, acc) ==
    LET best_ou == acc.best_ou
        over_key == fmt_label(s_Over, acc.line_seen)
        under_key == fmt_label(s_Under, acc.line_seen)
        overs == SelectSeq(dict_keys(best_ou), LAMBDA k : label_startswith(k, s_over))
        unders == SelectSeq(dict_keys(best_ou), LAMBDA k : label_startswith(k, s_under))
        pair(ok, uk) ==
            [match |-> match_str,
             outcomes |-> << <<ok, dict_get(best_ou, ok)[1], dict_get(best_ou, ok)[2]>>,
                             <<uk, dict_get(best_ou, uk)[1], dict_get(best_ou, uk)[2]>> >>]
    IN  IF best_ou = <<>> THEN NoOutcomes
        ELSE IF dict_has(best_ou, over_key) /\ dict_has(best_ou, under_key)
             THEN pair(over_key, under_key)
        ELSE IF overs = <<>> \/ unders = <<>> THEN NoOutcomes
        ELSE pair(overs[1], unders[1])

extract_corners_ou(ev) ==
    corner_pick(match_str_of(ev.home_team, ev.away_team),
                corner_fold(corner_offers(ev), [line_seen |-> None, best_ou |-> <<>>]))

----------------------------------------------------------------------------
(* notifier.py: implied_prob, compute_arbs_for_outcomes *)

\* the 1e9 of implied_prob
SENTINEL == 1000000000

\* commission_map={}
EmptyDict == <<>>

\* commission_map.get(book, 0.0)
commission_get(commission_map, book) ==
    IF book \in DOMAIN commission_map THEN commission_map[book] ELSE QZero

implied_prob(odds, commission) ==
    Only({ IF QLt(QZero, eff) THEN QInv(eff) ELSE QInt(SENTINEL) :
            eff \in {QMul(odds, QSub(QOne, commission))} })

\* sum(implieds) is kept as (number of sentinel terms, sum of the other terms): with a
\* sentinel term the sum is at least 1e9, so the margin is negative and the ROI is 0.
compute_arbs_for_outcomes(outcomes, commission_map) ==
    LET implieds == [i \in 1..Len(outcomes) |->
                        implied_prob(outcomes[i][2], commission_get(commission_map, outcomes[i][3]))]
        nbig == Cardinality({i \in 1..Len(outcomes) : implieds[i] = QInt(SENTINEL)})
        rest == QSum(SelectSeq(implieds, LAMBDA x : x # QInt(SENTINEL)))
        margin == QSub(QOne, rest)
    IN  [nbig |-> nbig,
         margin |-> margin,
         roi |-> IF nbig > 0 THEN QZero ELSE QMax(QMul(margin, QInt(100)), QZero)]

----------------------------------------------------------------------------
(* app.py: the evaluation of lines 311-313, stake_split_for_arbitrage, round_stake *)

NaN == <<0, 0>>
Inf == <<1, 0>>
IsFinite(x) == x[2] # 0

\* line 311 divides by o*(1-commission): ZeroDivisionError when that product is 0
app_eval_raises(best_outcomes, commission_map) ==
    \E i \in 1..Len(best_outcomes) :
        QMul(best_outcomes[i][2],
             QSub(QOne, commission_get(commission_map, best_outcomes[i][3]))) = QZero

\* lines 311-313 when no division raises
app_eval(best_outcomes, commission_map) ==
    Only({ Only({ [implieds |-> implieds,
                   margin |-> margin,
                   roi_est |-> QMax(QMul(margin, QInt(100)), QZero)] :
                    margin \in {QSub(QOne, QSum(implieds))} }) :
            implieds \in {[i \in 1..Len(best_outcomes) |->
                            QInv(QMul(best_outcomes[i][2],
                                      QSub(QOne, commission_get(commission_map, best_outcomes[i][3]))))]} })

\* Python min(payouts): the first element, replaced by each later one that compares
\* smaller; every comparison with NaN is False
RECURSIVE py_min_from(_, _)
py_min_from(xs, cur) ==
    IF xs = <<>> THEN cur
    ELSE LET x == Head(xs)
         IN  py_min_from(Tail(xs),
                IF x # NaN /\ cur # NaN /\ QLt(x, cur) THEN x ELSE cur)
py_min(xs) == IF xs = <<>> THEN QZero ELSE py_min_from(Tail(xs), Head(xs))

stake_split_for_arbitrage(best_odds, bankroll, commission_map) ==
    LET n == Len(best_odds)
        c(i) == commission_get(commission_map, best_odds[i][3])
    IN  Only({ Only({ Only({ Only({ Only({
            [rows |-> [i \in 1..n |->
                          [Outcome |-> best_odds[i][1],
                           Bookmaker |-> best_odds[i][3],
                           Odds |-> round_dec(best_odds[i][2], 1000),
                           Commission |-> c(i),
                           Stake |-> stakes[i],
                           NetPayout |-> payouts[i]]],
             roi_pct |-> IF bankroll = QZero THEN QZero
                         ELSE IF min_payout = NaN THEN NaN
                         ELSE QMul(QDiv(QSub(min_payout, bankroll), bankroll), QInt(100)),
             margin |-> IF total_ip = Inf THEN <<-1, 0>> ELSE QSub(QOne, total_ip)] :
                min_payout \in {py_min(payouts)} }) :
                payouts \in {[i \in 1..n |->
                                IF stakes[i] = NaN THEN NaN
                                ELSE QMul(QMul(stakes[i], best_odds[i][2]), QSub(QOne, c(i)))]} }) :
                \* bankroll * (ip / total_ip) if total_ip > 0 else 0.0
                stakes \in {[i \in 1..n |->
                                IF total_ip = Inf
                                THEN (IF implieds[i] = Inf THEN NaN ELSE QZero)
                                ELSE IF QLt(QZero, total_ip)
                                     THEN QMul(bankroll, QDiv(implieds[i], total_ip))
                                     ELSE QZero]} }) :
                total_ip \in {IF (\E i \in 1..n : implieds[i] = Inf) THEN Inf ELSE QSum(implieds)} }) :
                implieds \in {[i \in 1..n |->
                                IF QLt(QZero, best_odds[i][2])
                                THEN QInv(QMul(best_odds[i][2], QSub(QOne, c(i))))
                                ELSE Inf]} })

\* round(x + 1e-9, 2) for x with few decimals: the nearest cent, a tie going up
round_cent_nudged(x) == Q(QFloor(QAdd(QMul(x, QInt(100)), Q(1, 2))), 100)

round_stake(value, step) ==
    Only({ IF QLe(st, QZero) THEN round_dec(v, 100)
           ELSE round_cent_nudged(QMul(QInt(round_int(QDiv(v, st))), st)) :
            v \in {value}, st \in {step} })

----------------------------------------------------------------------------
(* The odds payloads the scans are run on.  An event is                     *)
(*   [home_team, away_team, bookmakers], a bookmaker [title, key, markets], *)
(*   a market [key, outcomes], an outcome [name, description, price, point] *)
(* as in the JSON of the odds API (src/notifier.py:83-87).                  *)

\* at most this many bookmakers in one event
MaxBooks == 2

t_Arsenal     == <<"A","r","s","e","n","a","l">>
t_ArsenalFC   == <<"A","r","s","e","n","a","l"," ","F","C">>
t_Chelsea     == <<"C","h","e","l","s","e","a">>
t_PaddyPower  == <<"P","a","d","d","y"," ","P","o","w","e","r">>
t_Bet365      == <<"B","e","t","3","6","5">>
t_Betfair     == <<"B","e","t","f","a","i","r">>
t_skybet      == <<"s","k","y","b","e","t">>
t_OVER_sp     == <<" ","O","V","E","R"," ">>
t_Corners     == <<"C","o","r","n","e","r","s">>

Outcome(name, price, point) == [name |-> name, description |-> <<>>, price |-> price, point |-> point]
OutcomeD(name, desc, price, point) == [name |-> name, description |-> desc, price |-> price, point |-> point]
Market(key, outcomes) == [key |-> key, outcomes |-> outcomes]
Bookmaker(ttl, key, markets) == [title |-> ttl, key |-> key, markets |-> markets]

\* 1X2 markets: an arbitrage (implied sum 0.9), one above 1 with the home side spelt
\* differently, one without a draw, one with price 0, one with a negative price, one
\* with implied sum exactly 1
H2H_arb     == Market(s_h2h, << Outcome(t_Arsenal, Q(250,100), None), Outcome(s_Draw, Q(360,100), None), Outcome(t_Chelsea, Q(450,100), None) >>)
H2H_over1   == Market(s_h2h, << Outcome(t_ArsenalFC, Q(210,100), None), Outcome(s_Draw, Q(340,100), None), Outcome(t_Chelsea, Q(420,100), None) >>)
H2H_nodraw  == Market(s_h2h, << Outcome(t_Arsenal, Q(300,100), None), Outcome(t_Chelsea, Q(300,100), None) >>)
H2H_zero    == Market(s_h2h, << Outcome(t_Arsenal, Q(0,100), None), Outcome(s_Draw, Q(360,100), None), Outcome(t_Chelsea, Q(450,100), None) >>)
H2H_neg     == Market(s_h2h, << Outcome(t_Arsenal, Q(250,100), None), Outcome(s_Draw, Q(360,100), None), Outcome(t_Chelsea, Q(-450,100), None) >>)
H2H_one     == Market(s_h2h, << Outcome(t_Arsenal, Q(200,100), None), Outcome(s_Draw, Q(400,100), None), Outcome(t_Chelsea, Q(400,100), None) >>)

\* totals markets: corners at 9.5, corners at 10.5 under the key "totals", an Over
\* alone at 9.5, an Under alone at 10.5, goals totals, and a pair without a line
OU_95       == Market(s_totals_corners, << Outcome(s_Over, Q(210,100), Q(95,10)), Outcome(s_Under, Q(210,100), Q(95,10)) >>)
OU_105      == Market(s_totals, << OutcomeD(s_Over, t_Corners, Q(220,100), Q(105,10)), OutcomeD(s_Under, t_Corners, Q(180,100), Q(105,10)) >>)
OU_over95   == Market(s_totals_corners, << Outcome(s_Over, Q(195,100), Q(95,10)) >>)
OU_under105 == Market(s_totals_corners, << Outcome(s_Under, Q(230,100), Q(105,10)) >>)
OU_goals    == Market(s_totals, << Outcome(s_Over, Q(190,100), Q(25,10)), Outcome(s_Under, Q(190,100), Q(25,10)) >>)
OU_noline   == Market(s_corners, << Outcome(t_OVER_sp, Q(205,100), None), Outcome(s_under, Q(205,100), None) >>)

BOOKS ==
    { Bookmaker(t_PaddyPower, <<"p","p">>, <<H2H_arb>>),
      Bookmaker(t_Bet365, <<"b","3">>, <<H2H_over1>>),
      Bookmaker(t_Bet365, <<"b","3">>, <<H2H_nodraw>>),
      Bookmaker(None, t_skybet, <<H2H_one>>),
      Bookmaker(t_Betfair, <<"b","f">>, <<OU_95>>),
      Bookmaker(t_Bet365, <<"b","3">>, <<OU_105>>),
      Bookmaker(t_PaddyPower, <<"p","p">>, <<OU_over95>>),
      Bookmaker(t_Bet365, <<"b","3">>, <<OU_under105>>),
      Bookmaker(t_PaddyPower, <<"p","p">>, <<OU_goals>>),
      Bookmaker(t_Betfair, <<"b","f">>, <<OU_noline>>),
      Bookmaker(t_PaddyPower, <<"p","p">>, <<H2H_arb, OU_95>>) }

\* the non-empty tuples over S of length at most n
RECURSIVE SeqsUpTo(_, _)
SeqsUpTo(S, n) ==
    IF n = 0 THEN {}
    ELSE LET shorter == SeqsUpTo(S, n - 1)
         IN  {<<x>> : x \in S} \cup shorter \cup {Append(t, x) : t \in shorter, x \in S}

EVENTS == { [home_team |-> t_Arsenal, away_team |-> t_Chelsea, bookmakers |-> bks] :
                bks \in SeqsUpTo(BOOKS, MaxBooks) }

\* the events the scans of the two programs are run on
Event(bks) == [home_team |-> t_Arsenal, away_team |-> t_Chelsea, bookmakers |-> bks]
SCAN_EVENTS ==
    { Event(<<Bookmaker(t_PaddyPower, <<"p","p">>, <<H2H_arb>>)>>),
      Event(<<Bookmaker(t_Bet365, <<"b","3">>, <<H2H_arb>>)>>),
      Event(<<Bookmaker(t_Betfair, <<"b","f">>, <<H2H_one>>)>>),
      Event(<<Bookmaker(t_PaddyPower, <<"p","p">>, <<H2H_arb>>), Bookmaker(t_Bet365, <<"b","3">>, <<H2H_over1>>)>>),
      Event(<<Bookmaker(t_Bet365, <<"b","3">>, <<H2H_nodraw>>)>>),
      Event(<<Bookmaker(None, t_skybet, <<H2H_zero>>)>>),
      Event(<<Bookmaker(t_Betfair, <<"b","f">>, <<H2H_neg>>)>>),
      Event(<<Bookmaker(t_Betfair, <<"b","f">>, <<OU_95>>)>>),
      Event(<<Bookmaker(t_PaddyPower, <<"p","p">>, <<OU_over95>>), Bookmaker(t_Bet365, <<"b","3">>, <<OU_under105>>)>>) }

\* at most this many events in the answer to one odds request
MaxEvents == 1
EVENT_LISTS == {<<>>} \cup SeqsUpTo(SCAN_EVENTS, MaxEvents)

----------------------------------------------------------------------------
(* State *)

VARIABLES
    n_pc,        \* notifier: where main is ("idle", "scanning", "tail", "written", "done")
    n_outcome,   \* notifier: how the last run of main ended
    n_env,       \* notifier: the environment settings of the run
    n_league,    \* notifier: index into SPORTS of the next league of the loop
    n_all_arbs,  \* notifier: all_arbs
    n_stderr,    \* notifier: the leagues of the "Fetch failed for ..." lines of the run
    n_fetched,   \* notifier: the leagues whose odds request of the run was answered
    n_sent,      \* notifier: the telegram_send calls made so far, in order
    n_runs,      \* notifier: the number of runs of main started
    n_hist,      \* notifier: all_arbs of the run before, the last non-empty all_arbs of
                 \*           the runs before, and the state file and the number of sends
                 \*           when the current run started
    state_file,  \* notifier: the content of .arb_state_hash, None when there is no file
    a_pc,        \* app: where the script run is
    a_cfg,       \* app: the sidebar settings of the run
    a_comp,      \* app: index into comps of the next competition
    a_commission_map, \* app: commission_map
    a_fetch_errors,   \* app: fetch_errors
    a_fetched,   \* app: the competitions whose odds request was answered
    a_all_records,    \* app: all_records
    a_outcome,   \* app: how the script run ended
    a_shown,     \* app: the fetch notes shown on the page
    x_ev,        \* extractors: the event given
    x_out,       \* extractors: what each extractor returned for it
    f_in,        \* allowed-bookmakers filter: the name and the ALLOWED_BOOKMAKERS text given
    f_out,       \* allowed-bookmakers filter: what each function returned for them
    r_pc,        \* overlapping scans: the line each of the two processes is at
    r_all_arbs,  \* overlapping scans: all_arbs of each process
    r_prev       \* overlapping scans: prev of each process

nvars == <<n_pc, n_outcome, n_env, n_league, n_all_arbs, n_stderr, n_fetched, n_sent, n_runs, n_hist, state_file>>
avars == <<a_pc, a_cfg, a_comp, a_commission_map, a_fetch_errors, a_fetched, a_all_records, a_outcome, a_shown>>
xvars == <<x_ev, x_out>>
fvars == <<f_in, f_out>>
rvars == <<r_pc, r_all_arbs, r_prev>>
vars == <<nvars, avars, xvars, fvars, rvars>>

----------------------------------------------------------------------------
(* notifier.py: main *)

\* the league names of SPORTS, in order
SPORTS == <<"EPL", "Championship", "League One", "League Two", "FA Cup", "EFL Cup">>

\* at most this many runs of main
MaxRuns == 3

\* the values given to MIN_ROI_PCT
MIN_ROI_SCAN_VALUES == {Q(2, 10), QZero}

\* float(text) for the texts MIN_ROI_PCT_NOTIFY is given: a run of digits is the
\* number it spells, anything else raises ValueError (None here)
Digits == <<"0","1","2","3","4","5","6","7","8","9">>
IsDigit(c) == \E i \in 1..10 : Digits[i] = c
digit_value(c) == (CHOOSE i \in 1..10 : Digits[i] = c) - 1
RECURSIVE int_of(_, _)
int_of(s, acc) == IF s = <<>> THEN acc ELSE int_of(Tail(s), 10 * acc + digit_value(Head(s)))
float_of(s) ==
    IF s # <<>> /\ \A i \in 1..Len(s) : IsDigit(s[i]) THEN QInt(int_of(s, 0)) ELSE None

\* the texts MIN_ROI_PCT_NOTIFY is set to; <<>> when it is not set
MIN_ROI_NOTIFY_ENV_VALUES == { <<>>, <<" ","8"," ">>, <<"h","i","g","h">> }

\* lines 225-229: the notify threshold, the scan threshold when the variable is not
\* set or is not a number
min_roi_notify_of(raw, min_roi_scan) ==
    LET min_roi_notify_env == strip(raw)
    IN  IF min_roi_notify_env = <<>> THEN min_roi_scan
        ELSE IF float_of(min_roi_notify_env) = None THEN min_roi_scan
        ELSE float_of(min_roi_notify_env)

\* the settings lines 224-232 leave in the locals of main
MAIN_ENVS ==
    { [include_corners |-> ic, min_roi_scan |-> mr, min_roi_notify |-> min_roi_notify_of(raw, mr)] :
        ic \in BOOLEAN, mr \in MIN_ROI_SCAN_VALUES, raw \in MIN_ROI_NOTIFY_ENV_VALUES }

\* hashlib.sha256(json.dumps(all_arbs, sort_keys=True)...).hexdigest(): the text of the
\* list, each dict with its keys in sorted order, under a collision-free hash
json_dumps(all_arbs) ==
    [i \in 1..Len(all_arbs) |->
        <<all_arbs[i].league, all_arbs[i].market, all_arbs[i].match,
          all_arbs[i].outcomes, all_arbs[i].roi_pct>>]
hash_arbs_summary(all_arbs) == <<"sha256", json_dumps(all_arbs)>>

\* any(is_target_book(b) for (_,_,b) in outcomes)
any_target_book(outcomes) == \E k \in 1..Len(outcomes) : is_target_book(outcomes[k][3])

\* lines 242-246 and 254-258: the event reaches the call of compute_arbs_for_outcomes
reaches_compute(r) == r.outcomes # <<>> /\ any_target_book(r.outcomes)

\* lines 241-261 for one league's events.  The argument min_roi of lines 247 and 259
\* is a name that neither main nor the module binds: evaluating it raises NameError
\* before compute_arbs_for_outcomes is called, so no event is ever appended.
scan_league_raises(events, include_corners) ==
    \/ \E i \in 1..Len(events) : reaches_compute(extract_h2h(events[i]))
    \/ include_corners /\ \E i \in 1..Len(events) : reaches_compute(extract_corners_ou(events[i]))

InitN ==
    /\ n_pc = "idle"
    /\ n_outcome = "none"
    /\ n_env = [include_corners |-> TRUE, min_roi_scan |-> Q(2, 10), min_roi_notify |-> Q(2, 10)]
    /\ n_league = 1
    /\ n_all_arbs = <<>>
    /\ n_stderr = <<>>
    /\ n_fetched = <<>>
    /\ n_sent = <<>>
    /\ n_runs = 0
    /\ n_hist = [prev_arbs |-> <<>>, start_file |-> None, start_sent |-> 0, last_nonempty |-> <<>>]
    /\ state_file = None

\* a run of main may start when none is in progress
CanStart == n_pc \in {"idle", "done"} /\ n_runs < MaxRuns

ResetRun ==
    /\ n_runs' = n_runs + 1
    /\ n_hist' = [prev_arbs |-> n_all_arbs, start_file |-> state_file, start_sent |-> Len(n_sent),
                last_nonempty |-> IF n_all_arbs # <<>> THEN n_all_arbs ELSE n_hist.last_nonempty]
    /\ n_all_arbs' = <<>>
    /\ n_stderr' = <<>>
    /\ n_fetched' = <<>>
    /\ n_league' = 1

EndRun(outcome) ==
    /\ n_pc' = "done"
    /\ n_outcome' = outcome

\* lines 213-214: TELEGRAM_BOT_TOKEN or TELEGRAM_CHAT_ID missing
MainMissingTelegram ==
    /\ CanStart
    /\ ResetRun
    /\ EndRun("exit1_telegram")
    /\ UNCHANGED <<n_env, n_sent, state_file, avars, xvars, fvars, rvars>>

\* telegram_send: the POST is made; raise_for_status raises when it is refused
telegram_send(text, ok) == Append(n_sent, [text |-> text, delivered |-> ok])

\* lines 215-216: TEST_MODE
MainTestMode ==
    /\ CanStart
    /\ ResetRun
    /\ \E ok \in BOOLEAN :
        /\ n_sent' = telegram_send(<<"test">>, ok)
        /\ EndRun(IF ok THEN "test_sent" ELSE "HTTPError")
    /\ UNCHANGED <<n_env, state_file, avars, xvars, fvars, rvars>>

\* lines 218-219: should_execute_now() is False
MainGated ==
    /\ CanStart
    /\ ResetRun
    /\ EndRun("gated")
    /\ UNCHANGED <<n_env, n_sent, state_file, avars, xvars, fvars, rvars>>

\* lines 221-223: ODDS_API_KEY missing
MainMissingApiKey ==
    /\ CanStart
    /\ ResetRun
    /\ EndRun("exit1_api_key")
    /\ UNCHANGED <<n_env, n_sent, state_file, avars, xvars, fvars, rvars>>

\* lines 224-232: the settings are read and the loop over SPORTS begins
MainBeginScan ==
    /\ CanStart
    /\ ResetRun
    /\ n_env' \in MAIN_ENVS
    /\ n_pc' = "scanning"
    /\ n_outcome' = "none"
    /\ UNCHANGED <<n_sent, state_file, avars, xvars, fvars, rvars>>

\* after an iteration of the loop over SPORTS
NextLeague ==
    /\ n_league' = n_league + 1
    /\ n_pc' = IF n_league = Len(SPORTS) THEN "tail" ELSE "scanning"

\* lines 234-238: fetch_odds raises; the failure is printed and the loop continues
ScanFetchFailed ==
    /\ n_pc = "scanning"
    /\ n_stderr' = Append(n_stderr, SPORTS[n_league])
    /\ NextLeague
    /\ UNCHANGED <<n_outcome, n_env, n_all_arbs, n_fetched, n_sent, n_runs, n_hist, state_file, avars, xvars, fvars, rvars>>

\* lines 235 and 241-261: fetch_odds answers and both loops over the events run
ScanLeague ==
    /\ n_pc = "scanning"
    /\ \E events \in EVENT_LISTS :
        /\ n_fetched' = Append(n_fetched, SPORTS[n_league])
        /\ IF scan_league_raises(events, n_env.include_corners)
           THEN /\ EndRun("NameError")
                /\ UNCHANGED n_league
           ELSE /\ NextLeague
                /\ UNCHANGED n_outcome
    /\ UNCHANGED <<n_env, n_all_arbs, n_stderr, n_sent, n_runs, n_hist, state_file, avars, xvars, fvars, rvars>>

\* a return of lines 263-264 that removes the stored digest
NoArbsReturn_clears_state ==
    /\ n_pc = "tail"
    /\ n_all_arbs = <<>>
    /\ EndRun("no_arbs")
    /\ state_file' = None
    /\ UNCHANGED <<n_env, n_league, n_all_arbs, n_stderr, n_fetched, n_sent, n_runs, n_hist, avars, xvars, fvars, rvars>>

\* lines 263-264
NoArbsReturn ==
    /\ n_pc = "tail"
    /\ n_all_arbs = <<>>
    /\ EndRun("no_arbs")
    /\ UNCHANGED <<n_env, n_league, n_all_arbs, n_stderr, n_fetched, n_sent, n_runs, n_hist, state_file, avars, xvars, fvars, rvars>>

----------------------------------------------------------------------------
(* notifier.py: main from line 263 on, the deduplication and the message.       *)
(* Under Spec the list all_arbs is empty whenever line 263 is reached (the    *)
(* call of line 247 raises), so lines 267-301 are examined on their own: SpecTail *)
(* starts a run at line 263 with each list that lines 233-261 are written to    *)
(* build, i.e. the appends those lines make once the call of lines 247 and 259  *)
(* goes through (compute_arbs_for_outcomes never reads its second parameter).   *)

\* lines 247-249 and 259-261 for one extracted event
arb_appended(league, market, r, min_roi_scan) ==
    LET c == compute_arbs_for_outcomes(r.outcomes, EmptyDict)
    IN  IF reaches_compute(r) /\ QLe(min_roi_scan, c.roi)
        THEN << [league |-> league, market |-> market, match |-> r.match,
                 outcomes |-> r.outcomes, roi_pct |-> round_dec(c.roi, 1000)] >>
        ELSE <<>>

\* lines 241-261 for one league
league_appends(league, events, env) ==
    Concat([i \in 1..Len(events) |->
                arb_appended(league, "1X2", extract_h2h(events[i]), env.min_roi_scan)])
    \o (IF env.include_corners
        THEN Concat([i \in 1..Len(events) |->
                arb_appended(league, "Corners O/U", extract_corners_ou(events[i]), env.min_roi_scan)])
        ELSE <<>>)

\* the runs SpecTail starts: the settings, and all_arbs for events in the first league
TAIL_INPUTS ==
    { [env |-> env, all_arbs |-> league_appends(SPORTS[1], e1, env)] :
        e1 \in EVENT_LISTS, env \in MAIN_ENVS }

TailStart ==
    /\ CanStart
    /\ n_runs' = n_runs + 1
    /\ n_hist' = [prev_arbs |-> n_all_arbs, start_file |-> state_file, start_sent |-> Len(n_sent),
                last_nonempty |-> IF n_all_arbs # <<>> THEN n_all_arbs ELSE n_hist.last_nonempty]
    /\ n_stderr' = <<>>
    /\ n_fetched' = <<>>
    /\ n_league' = Len(SPORTS) + 1
    /\ \E inp \in TAIL_INPUTS :
        /\ n_env' = inp.env
        /\ n_all_arbs' = inp.all_arbs
    /\ n_pc' = "tail"
    /\ n_outcome' = "none"
    /\ UNCHANGED <<n_sent, state_file, avars, xvars, fvars, rvars>>

\* line 268: the stored digest, None when the file does not exist
read_prev == state_file

\* a comparison that never finds the digest stored
digest_unchanged_always_new(digest, prev) == FALSE

\* line 269: if digest == prev
digest_unchanged(digest, prev) == digest = prev

\* lines 267-271: the digest is the stored one
DedupUnchanged ==
    /\ n_pc = "tail"
    /\ n_all_arbs # <<>>
    /\ digest_unchanged(hash_arbs_summary(n_all_arbs), read_prev)
    /\ EndRun("unchanged")
    /\ UNCHANGED <<n_env, n_league, n_all_arbs, n_stderr, n_fetched, n_sent, n_runs, n_hist, state_file, avars, xvars, fvars, rvars>>

\* lines 267-272: the digest is new and is written to the state file
DedupWrite ==
    /\ n_pc = "tail"
    /\ n_all_arbs # <<>>
    /\ ~digest_unchanged(hash_arbs_summary(n_all_arbs), read_prev)
    /\ state_file' = hash_arbs_summary(n_all_arbs)
    /\ n_pc' = "written"
    /\ UNCHANGED <<n_outcome, n_env, n_league, n_all_arbs, n_stderr, n_fetched, n_sent, n_runs, n_hist, avars, xvars, fvars, rvars>>

\* lines 275-279: the first pass of the loop over SPORTS reads notified_arbs, a name
\* that neither main nor the module binds: NameError.  Lines 280-301, with the
\* telegram_send of line 300, are never reached.
BuildMessage ==
    /\ n_pc = "written"
    /\ EndRun("NameError")
    /\ UNCHANGED <<n_env, n_league, n_all_arbs, n_stderr, n_fetched, n_sent, n_runs, n_hist, state_file, avars, xvars, fvars, rvars>>

----------------------------------------------------------------------------
(* app.py: one run of the script, lines 196-373 *)

\* the names of SPORT_KEYS, in order
COMP_NAMES == <<"English Premier League (EPL)", "EFL Championship", "EFL League One",
                "EFL League Two", "FA Cup", "EFL Cup (Carabao Cup)">>

\* the competitions selected in the sidebar: the first two
SELECTED_COMPS == SubSeq(COMP_NAMES, 1, 2)

\* the commission a sidebar input may be set to
COMMISSION_VALUES == {QZero, Q(5, 100)}

\* the sidebar settings a run is made with: (bankroll, stake step) is one of
\* (100, 0.05), (100, 1.00), (0, 0.05)
APP_CONFIGS ==
    { [comps |-> SELECTED_COMPS, api_key |-> TRUE, market_key |-> mk,
       bankroll |-> m[1], stake_step |-> m[2], min_roi |-> mr,
       include_commission |-> ic, filter_to_target |-> ft] :
        mk \in {s_h2h, s_totals_corners},
        m \in {<<QInt(100), Q(5, 100)>>, <<QInt(100), QInt(1)>>, <<QZero, Q(5, 100)>>},
        mr \in {Q(2, 10), QInt(-10)}, ic \in BOOLEAN, ft \in BOOLEAN }
    \cup
    { [comps |-> SELECTED_COMPS, api_key |-> FALSE, market_key |-> s_h2h,
       bankroll |-> QInt(100), stake_step |-> Q(5, 100), min_roi |-> Q(2, 10),
       include_commission |-> FALSE, filter_to_target |-> TRUE] }

\* lines 226-304: best_outcomes of one event, <<>> when the event is skipped
app_best_outcomes(ev, market_key) ==
    LET home == ev.home_team
        away == ev.away_team
    IN  IF market_key = s_h2h
        THEN LET best == best_fold(h2h_offers(ev, market_key), <<>>)
                 name_map == name_map_fold(best, home, away, home, away, <<>>)
             IN  IF ~(dict_has(name_map, home) /\ dict_has(name_map, s_Draw) /\ dict_has(name_map, away))
                 THEN <<>>
                 ELSE << <<s_Home, dict_get(name_map, home)[1], dict_get(name_map, home)[2]>>,
                         <<s_Draw, dict_get(name_map, s_Draw)[1], dict_get(name_map, s_Draw)[2]>>,
                         <<s_Away, dict_get(name_map, away)[1], dict_get(name_map, away)[2]>> >>
        ELSE IF market_key = s_totals_corners
        THEN corner_pick(match_str_of(home, away),
                         corner_fold(app_corner_offers(ev),
                                     [line_seen |-> None, best_ou |-> <<>>])).outcomes
        ELSE <<>>

\* lines 316-335: the record appended for an event that passed the threshold
app_record(comp, ev, best_outcomes, cfg, commission_map) ==
    Only({ Only({
        [Competition |-> comp,
         Match |-> match_str_of(ev.home_team, ev.away_team),
         BestOutcomes |-> best_outcomes,
         ArbMarginPct |-> round_dec(QMul(sp.margin, QInt(100)), 1000),
         Plan |-> plan,
         \* build_betslip_text: the ROI of the heading is roi_pct, the equalized payout
         \* the least of the "Net Payout if Wins" column
         Betslip |-> [roi_pct |-> sp.roi_pct,
                      stakes |-> [i \in 1..Len(plan) |-> round_stake(plan[i].Stake, cfg.stake_step)],
                      equalized |-> py_min([i \in 1..Len(plan) |-> plan[i].NetPayout])],
         \* not part of the record: the locals of lines 311-313 and the commissions used
         locals |-> [eval |-> app_eval(best_outcomes, commission_map),
                     commission |-> [i \in 1..Len(best_outcomes) |->
                                        commission_get(commission_map, best_outcomes[i][3])]]] :
            \* lines 317-321
            plan \in {[i \in 1..Len(sp.rows) |->
                        [sp.rows[i] EXCEPT !.Stake = round_stake(sp.rows[i].Stake, cfg.stake_step),
                                           !.NetPayout = round_dec(sp.rows[i].NetPayout, 100),
                                           !.Commission = QFloor(QMul(sp.rows[i].Commission, QInt(100)))]]} }) :
            sp \in {stake_split_for_arbitrage(best_outcomes, cfg.bankroll, commission_map)} })

\* lines 222-335 for one event: what happens, and the record when one is appended
app_evaluate(comp, ev, cfg, commission_map) ==
    LET res(kind) == [kind |-> kind, record |-> None]
    IN  Only({
            IF bo = <<>> THEN res("skipped")
            ELSE IF cfg.filter_to_target /\ ~any_target_book(bo) THEN res("filtered")
            ELSE IF app_eval_raises(bo, commission_map) THEN res("ZeroDivisionError")
            ELSE IF ~QLe(cfg.min_roi, app_eval(bo, commission_map).roi_est) THEN res("below")
            \* line 319: round_stake(NaN) raises ValueError (round of a NaN)
            ELSE IF \E row \in { r : r \in
                        { stake_split_for_arbitrage(bo, cfg.bankroll, commission_map).rows } } :
                        \E i \in 1..Len(row) : row[i].Stake = NaN
                 THEN res("ValueError")
            ELSE [kind |-> "recorded", record |-> app_record(comp, ev, bo, cfg, commission_map)] :
            bo \in {app_best_outcomes(ev, cfg.market_key)} })

\* the loop of line 222 over the events of one competition
RECURSIVE app_scan_events(_, _, _, _, _)
app_scan_events(comp, events, cfg, commission_map, acc) ==
    IF events = <<>> THEN acc
    ELSE Only({ IF r.kind \in {"ZeroDivisionError", "ValueError"}
                THEN [acc EXCEPT !.raised = r.kind]
                ELSE app_scan_events(comp, Tail(events), cfg, commission_map,
                        IF r.kind = "recorded"
                        THEN [acc EXCEPT !.records = Append(@, r.record)]
                        ELSE acc) :
                r \in {app_evaluate(comp, Head(events), cfg, commission_map)} })

\* line 214: the bookmakers of the events
all_books(events) ==
    UNION { { (IF events[i].bookmakers[b].title = None
               THEN events[i].bookmakers[b].key
               ELSE events[i].bookmakers[b].title) : b \in 1..Len(events[i].bookmakers) } :
            i \in 1..Len(events) }

InitA ==
    /\ a_pc = "start"
    /\ a_cfg \in APP_CONFIGS
    /\ a_comp = 1
    /\ a_commission_map = EmptyDict
    /\ a_fetch_errors = <<>>
    /\ a_fetched = <<>>
    /\ a_all_records = <<>>
    /\ a_outcome = "none"
    /\ a_shown = <<>>

\* lines 196-197: no API key, st.stop()
AppNoApiKey ==
    /\ a_pc = "start"
    /\ ~a_cfg.api_key
    /\ a_pc' = "done"
    /\ a_outcome' = "stopped"
    /\ UNCHANGED <<a_cfg, a_comp, a_commission_map, a_fetch_errors, a_fetched, a_all_records, a_shown, nvars, xvars, fvars, rvars>>

\* lines 199-203
AppBeginScan ==
    /\ a_pc = "start"
    /\ a_cfg.api_key
    /\ a_pc' = "loop"
    /\ UNCHANGED <<a_cfg, a_comp, a_commission_map, a_fetch_errors, a_fetched, a_all_records, a_outcome, a_shown, nvars, xvars, fvars, rvars>>

AppNextComp ==
    /\ a_comp' = a_comp + 1
    /\ a_pc' = IF a_comp = Len(a_cfg.comps) THEN "display" ELSE "loop"

\* lines 204-210: fetch_odds raises; the error is noted and the loop continues
AppFetchFailed ==
    /\ a_pc = "loop"
    /\ a_fetch_errors' = Append(a_fetch_errors, a_cfg.comps[a_comp])
    /\ AppNextComp
    /\ UNCHANGED <<a_cfg, a_commission_map, a_fetched, a_all_records, a_outcome, a_shown, nvars, xvars, fvars, rvars>>

\* lines 206-207 and 212-335: fetch_odds answers, the commission inputs of the
\* competition are read, and the events are evaluated in order
AppScanComp ==
    /\ a_pc = "loop"
    /\ \E events \in EVENT_LISTS :
       \E pct \in [all_books(events) -> COMMISSION_VALUES] :
       \E cm \in { IF a_cfg.include_commission /\ events # <<>>
                   THEN [b \in (DOMAIN a_commission_map) \cup DOMAIN pct |->
                            IF b \in DOMAIN pct THEN pct[b] ELSE a_commission_map[b]]
                   ELSE a_commission_map } :
       \E r \in { app_scan_events(a_cfg.comps[a_comp], events, a_cfg, cm,
                                  [records |-> a_all_records, raised |-> "none"]) } :
            \* the inputs are drawn only when include_commission is ticked
            /\ (a_cfg.include_commission /\ events # <<>>) \/ \A b \in DOMAIN pct : pct[b] = QZero
            /\ a_commission_map' = cm
            /\ a_fetched' = Append(a_fetched, a_cfg.comps[a_comp])
            /\ a_all_records' = r.records
            /\ IF r.raised # "none"
               THEN /\ a_pc' = "done"
                    /\ a_outcome' = r.raised
                    /\ UNCHANGED a_comp
               ELSE /\ AppNextComp
                    /\ UNCHANGED a_outcome
    /\ UNCHANGED <<a_cfg, a_fetch_errors, a_shown, nvars, xvars, fvars, rvars>>

\* lines 337-373: the fetch notes, then the warning when nothing was recorded;
\* with records the summary table is shown and the first detail block reads
\* rec["Best Home"], a key no record has: KeyError
AppDisplay ==
    /\ a_pc = "display"
    /\ a_shown' = a_fetch_errors
    /\ a_pc' = "done"
    /\ a_outcome' = IF a_all_records = <<>> THEN "no_surebets" ELSE "KeyError"
    /\ UNCHANGED <<a_cfg, a_comp, a_commission_map, a_fetch_errors, a_fetched, a_all_records, nvars, xvars, fvars, rvars>>

----------------------------------------------------------------------------
(* The extractors applied to single events *)

NoResult == [match |-> None, outcomes |-> <<>>]

InitX ==
    /\ x_ev \in EVENTS
    /\ x_out = [done |-> {}, h2h |-> NoResult, corners |-> NoResult,
                app_h2h |-> <<>>, app_corners |-> <<>>]

ApplyExtractH2H ==
    /\ "h2h" \notin x_out.done
    /\ x_out' = [x_out EXCEPT !.done = @ \cup {"h2h"}, !.h2h = extract_h2h(x_ev)]
    /\ UNCHANGED <<x_ev, nvars, avars, fvars, rvars>>

ApplyExtractCornersOU ==
    /\ "corners" \notin x_out.done
    /\ x_out' = [x_out EXCEPT !.done = @ \cup {"corners"}, !.corners = extract_corners_ou(x_ev)]
    /\ UNCHANGED <<x_ev, nvars, avars, fvars, rvars>>

ApplyAppH2H ==
    /\ "app_h2h" \notin x_out.done
    /\ x_out' = [x_out EXCEPT !.done = @ \cup {"app_h2h"}, !.app_h2h = app_best_outcomes(x_ev, s_h2h)]
    /\ UNCHANGED <<x_ev, nvars, avars, fvars, rvars>>

ApplyAppCorners ==
    /\ "app_corners" \notin x_out.done
    /\ x_out' = [x_out EXCEPT !.done = @ \cup {"app_corners"},
                              !.app_corners = app_best_outcomes(x_ev, s_totals_corners)]
    /\ UNCHANGED <<x_ev, nvars, avars, fvars, rvars>>

----------------------------------------------------------------------------
(* notifier.py: norm, parse_allowed_env and is_allowed applied to one bookmaker *)
(* name under one setting of ALLOWED_BOOKMAKERS                                *)

\* the spellings a bookmaker name is given in
FILTER_NAMES ==
    { <<"L","a","d","b","r","o","o","k","s">>,
      s_ladbroke,
      <<"L","a","d","b","r","o","k","e","s">>,
      <<" ","L","A","D","B","R","O","K","E","S"," ">>,
      <<"U","n","i"," ","B","e","t">>,
      <<"W","i","l","l","i","a","m","H","i","l","l">>,
      s_pinny,
      t_Bet365, t_Betfair, t_PaddyPower, <<>>, None }

\* the texts ALLOWED_BOOKMAKERS is set to; <<>> when it is not set
ALLOWED_ENV_VALUES ==
    { <<>>,
      <<" ">>,
      <<"L","a","d","b","r","o","k","e","s">>,
      s_ladbroke,
      <<"U","n","i","b","e","t",","," ","C","o","r","a","l">>,
      <<"b","e","t","3","6","5",","," ",",","P","i","n","n","y">> }

InitF ==
    /\ f_in \in [name : FILTER_NAMES, raw : ALLOWED_ENV_VALUES]
    /\ f_out = [done |-> {}, norm |-> None, allowed_norm |-> {}, is_allowed |-> FALSE]

ApplyNorm ==
    /\ "norm" \notin f_out.done
    /\ f_out' = [f_out EXCEPT !.done = @ \cup {"norm"}, !.norm = norm(f_in.name)]
    /\ UNCHANGED <<f_in, nvars, avars, xvars, rvars>>

ApplyParseAllowedEnv ==
    /\ "parse_allowed_env" \notin f_out.done
    /\ f_out' = [f_out EXCEPT !.done = @ \cup {"parse_allowed_env"},
                              !.allowed_norm = parse_allowed_env(f_in.raw)]
    /\ UNCHANGED <<f_in, nvars, avars, xvars, rvars>>

\* is_allowed with the set parse_allowed_env returned
ApplyIsAllowed ==
    /\ "parse_allowed_env" \in f_out.done
    /\ "is_allowed" \notin f_out.done
    /\ f_out' = [f_out EXCEPT !.done = @ \cup {"is_allowed"},
                              !.is_allowed = is_allowed(f_in.name, f_out.allowed_norm)]
    /\ UNCHANGED <<f_in, nvars, avars, xvars, rvars>>

----------------------------------------------------------------------------
(* notifier.py: lines 267-279 of main in two processes at once.  Nothing in *)
(* main takes a lock on .arb_state_hash or otherwise excludes a second run:  *)
(* each numbered line of a process is a step, and the steps of the two       *)
(* processes interleave in every order.  open(state_file, "w") empties the   *)
(* file before f.write fills it, so a read between the two finds "".         *)

SCANS == {1, 2}

\* the non-empty lists a scan reaches line 267 with
RACE_LISTS ==
    { l \in { league_appends(SPORTS[1], <<e>>, env) : e \in SCAN_EVENTS, env \in MAIN_ENVS } : l # <<>> }

\* the content of the state file when the two scans start
RACE_START_FILES == {None} \cup { hash_arbs_summary(l) : l \in RACE_LISTS }

InitR ==
    /\ r_pc = [p \in SCANS |-> "line268"]
    /\ r_all_arbs \in [SCANS -> RACE_LISTS]
    /\ r_prev = [p \in SCANS |-> None]
    /\ state_file \in RACE_START_FILES

\* line 268: prev = open(state_file).read().strip() if the file exists, else None
RaceRead(p) ==
    /\ r_pc[p] = "line268"
    /\ r_prev' = [r_prev EXCEPT ![p] = read_prev]
    /\ r_pc' = [r_pc EXCEPT ![p] = "line269"]
    /\ UNCHANGED <<r_all_arbs, nvars, avars, xvars, fvars>>

\* lines 269-271: if digest == prev: return
RaceCompare(p) ==
    /\ r_pc[p] = "line269"
    /\ r_pc' = [r_pc EXCEPT ![p] =
                  IF digest_unchanged(hash_arbs_summary(r_all_arbs[p]), r_prev[p])
                  THEN "unchanged" ELSE "line272"]
    /\ UNCHANGED <<r_all_arbs, r_prev, nvars, avars, xvars, fvars>>

\* line 272: open(state_file, "w") creates the file or empties it
RaceOpenForWrite(p) ==
    /\ r_pc[p] = "line272"
    /\ state_file' = <<>>
    /\ r_pc' = [r_pc EXCEPT ![p] = "line272_write"]
    /\ UNCHANGED <<r_all_arbs, r_prev, n_pc, n_outcome, n_env, n_league, n_all_arbs, n_stderr,
                   n_fetched, n_sent, n_runs, n_hist, avars, xvars, fvars>>

\* line 272: f.write(digest) and the close of the file; the scan goes on to build
\* and send the message (lines 275-300)
RaceWrite(p) ==
    /\ r_pc[p] = "line272_write"
    /\ state_file' = hash_arbs_summary(r_all_arbs[p])
    /\ r_pc' = [r_pc EXCEPT ![p] = "line275"]
    /\ UNCHANGED <<r_all_arbs, r_prev, n_pc, n_outcome, n_env, n_league, n_all_arbs, n_stderr,
                   n_fetched, n_sent, n_runs, n_hist, avars, xvars, fvars>>

----------------------------------------------------------------------------
(* Specifications *)

\* the variables of a program that is not running
IdleN == InitN
IdleA ==
    /\ a_pc = "off"
    /\ a_cfg = None
    /\ a_comp = 1
    /\ a_commission_map = EmptyDict
    /\ a_fetch_errors = <<>>
    /\ a_fetched = <<>>
    /\ a_all_records = <<>>
    /\ a_outcome = "none"
    /\ a_shown = <<>>
IdleX ==
    /\ x_ev = None
    /\ x_out = None
IdleF ==
    /\ f_in = None
    /\ f_out = None
IdleR ==
    /\ r_pc = None
    /\ r_all_arbs = None
    /\ r_prev = None

\* notifier.py: runs of main
Init == InitN /\ IdleA /\ IdleX /\ IdleF /\ IdleR
Next ==
    \/ MainMissingTelegram
    \/ MainTestMode
    \/ MainGated
    \/ MainMissingApiKey
    \/ MainBeginScan
    \/ ScanFetchFailed
    \/ ScanLeague
    \/ NoArbsReturn
Spec == Init /\ [][Next]_vars

\* notifier.py: runs of main from line 263
NextTail ==
    \/ TailStart
    \/ NoArbsReturn
    \/ DedupUnchanged
    \/ DedupWrite
    \/ BuildMessage
SpecTail == Init /\ [][NextTail]_vars

\* app.py: one run of the script
InitApp == IdleN /\ InitA /\ IdleX /\ IdleF /\ IdleR
NextApp ==
    \/ AppNoApiKey
    \/ AppBeginScan
    \/ AppFetchFailed
    \/ AppScanComp
    \/ AppDisplay
SpecApp == InitApp /\ [][NextApp]_vars

\* the extractors of both programs on one event
InitExtract == IdleN /\ IdleA /\ InitX /\ IdleF /\ IdleR
NextExtract ==
    \/ ApplyExtractH2H
    \/ ApplyExtractCornersOU
    \/ ApplyAppH2H
    \/ ApplyAppCorners
SpecExtract == InitExtract /\ [][NextExtract]_vars

\* the allowed-bookmakers filter on one name
InitFilter == IdleN /\ IdleA /\ IdleX /\ InitF /\ IdleR
NextFilter ==
    \/ ApplyNorm
    \/ ApplyParseAllowedEnv
    \/ ApplyIsAllowed
SpecFilter == InitFilter /\ [][NextFilter]_vars

\* notifier.py: two runs of main at lines 267-272 at once
InitRace ==
    /\ n_pc = "idle" /\ n_outcome = "none" /\ n_league = 1 /\ n_all_arbs = <<>>
    /\ n_env = [include_corners |-> TRUE, min_roi_scan |-> Q(2, 10), min_roi_notify |-> Q(2, 10)]
    /\ n_stderr = <<>> /\ n_fetched = <<>> /\ n_sent = <<>> /\ n_runs = 0
    /\ n_hist = [prev_arbs |-> <<>>, start_file |-> None, start_sent |-> 0, last_nonempty |-> <<>>]
    /\ IdleA /\ IdleX /\ IdleF /\ InitR
NextRace ==
    \/ \E p \in SCANS : RaceRead(p)
    \/ \E p \in SCANS : RaceCompare(p)
    \/ \E p \in SCANS : RaceOpenForWrite(p)
    \/ \E p \in SCANS : RaceWrite(p)
SpecRace == InitRace /\ [][NextRace]_vars

----------------------------------------------------------------------------
(* Properties of the deduplication, lines 263-301 of notifier.py (SpecTail) *)

Range(f) == { f[i] : i \in DOMAIN f }

\* C1: when a scan's opportunity list is identical to that of the scan before it,
\* the scan sends nothing and leaves the state file as the scan before left it; when
\* the list is not empty the scan returns at line 271 and the state file holds
\* the digest of the list.
C1_NoDuplicate ==
    (n_pc = "done" /\ n_runs >= 2 /\ n_all_arbs = n_hist.prev_arbs) =>
        /\ Len(n_sent) = n_hist.start_sent
        /\ state_file = n_hist.start_file
        /\ n_all_arbs # <<>> =>
            /\ n_outcome = "unchanged"
            /\ state_file = hash_arbs_summary(n_all_arbs)

\* a second scan with the same non-empty list has returned at line 271
C1_Witness ==
    /\ n_pc = "done"
    /\ n_runs >= 2
    /\ n_all_arbs # <<>>
    /\ n_all_arbs = n_hist.prev_arbs
    /\ n_outcome = "unchanged"

----------------------------------------------------------------------------
(* Properties of the scans of main (Spec) and of the app (SpecApp) *)

\* C4: a scan in which fetches failed has still fetched every other league, and
\* has reported each failed league once and fetched none of them.
C4_ScanCoversEveryCompetition ==
    (n_pc = "done" /\ n_stderr # <<>>) =>
        /\ \A l \in 1..Len(SPORTS) : SPORTS[l] \in Range(n_fetched) \cup Range(n_stderr)
        /\ Range(n_fetched) \cap Range(n_stderr) = {}
        /\ Cardinality(Range(n_stderr)) = Len(n_stderr)

\* C5: a recorded opportunity whose implied probabilities sum to 1 or more (margin
\* <= 0) has a betslip ROI of exactly 0.
C5_ReportedRoiNeverNegative ==
    \A k \in 1..Len(a_all_records) :
        QLe(a_all_records[k].locals.eval.margin, QZero) =>
            a_all_records[k].Betslip.roi_pct = QZero

\* C9: in every row of a recorded plan the net payout is the row's rounded stake
\* times the price times (1 - commission), to the cent.
C9_NetPayoutFromRoundedStake ==
    \A k \in 1..Len(a_all_records) :
        \A i \in 1..Len(a_all_records[k].Plan) :
            a_all_records[k].Plan[i].NetPayout =
                round_dec(QMul(QMul(a_all_records[k].Plan[i].Stake,
                                    a_all_records[k].BestOutcomes[i][2]),
                               QSub(QOne, a_all_records[k].locals.commission[i])), 100)

\* C10: no scan of the app ends in a division by zero or in the rounding of an
\* undefined stake.
C10_DegenerateInputNeverRaises ==
    a_outcome \notin {"ZeroDivisionError", "ValueError"}

----------------------------------------------------------------------------
(* Properties of the extractors (SpecExtract) *)

\* does the outcome name resolve to Draw, Home or Away (the chain of lines 102-104)
resolves_to(name, sem, ev) ==
    LET low == lower(name)
        isDraw == contains(low, s_draw)
        isHome == ~isDraw /\ contains(low, lower(ev.home_team))
        isAway == ~isDraw /\ ~isHome /\ contains(low, lower(ev.away_team))
    IN  (sem = s_Draw /\ isDraw) \/ (sem = s_Home /\ isHome) \/ (sem = s_Away /\ isAway)

\* no offer of the event for an outcome name resolving to the outcome's label has
\* a higher price than the outcome carries
is_max_price(outcomes, ev) ==
    \A k \in 1..Len(outcomes) :
        \A b \in 1..Len(ev.bookmakers) :
            \A m \in 1..Len(ev.bookmakers[b].markets) :
                ev.bookmakers[b].markets[m].key = s_h2h =>
                    \A o \in 1..Len(ev.bookmakers[b].markets[m].outcomes) :
                        resolves_to(ev.bookmakers[b].markets[m].outcomes[o].name, outcomes[k][1], ev)
                            => QLe(ev.bookmakers[b].markets[m].outcomes[o].price, outcomes[k][2])

\* C6: every outcome of an extracted 1X2 set carries the highest price any
\* bookmaker offers for a name resolving to it.
C6_BestPriceIsMaximum ==
    /\ "h2h" \in x_out.done => is_max_price(x_out.h2h.outcomes, x_ev)
    /\ "app_h2h" \in x_out.done => is_max_price(x_out.app_h2h, x_ev)

\* the non-null lines of the Over/Under outcomes, in iteration order
lines_of(offers) ==
    LET pts == [i \in 1..Len(offers) |-> offers[i].point]
    IN  SelectSeq(pts, LAMBDA x : x # None)

\* an Over and an Under are offered at the line
both_at(offers, line) ==
    /\ \E i \in 1..Len(offers) : offers[i].point = line /\ lower(offers[i].name) = s_over
    /\ \E i \in 1..Len(offers) : offers[i].point = line /\ lower(offers[i].name) = s_under

\* the returned pair is Over and Under of the line
pair_at(outcomes, line) ==
    /\ Len(outcomes) = 2
    /\ outcomes[1][1] = fmt_label(s_Over, line)
    /\ outcomes[2][1] = fmt_label(s_Under, line)

\* the extractor is given Over/Under outcomes at more than one line
lines_disagree(offers) == Cardinality(Range(lines_of(offers))) >= 2

\* the pair returned for the offers is that of the line, when the lines disagree
\* and an Over and an Under are offered at the line
returns_pair_of(offers, outcomes, line) ==
    (lines_disagree(offers) /\ both_at(offers, line)) => pair_at(outcomes, line)

last_of(xs) == xs[Len(xs)]
first_line(offers) == IF lines_of(offers) = <<>> THEN None ELSE Head(lines_of(offers))
last_line(offers) == IF lines_of(offers) = <<>> THEN None ELSE last_of(lines_of(offers))

\* C7 as stated: the pair returned is that of the first non-null line met.
C7_CanonicalLineIsFirst ==
    /\ "corners" \in x_out.done =>
        LET offers == corner_offers(x_ev)
        IN  returns_pair_of(offers, x_out.corners.outcomes, first_line(offers))
    /\ "app_corners" \in x_out.done =>
        LET offers == app_corner_offers(x_ev)
        IN  returns_pair_of(offers, x_out.app_corners, first_line(offers))

\* C7, amended: the canonical line is the last non-null line met; when an Over and an
\* Under are offered at it, they are the pair returned.
C7_CanonicalLineIsLast ==
    /\ "corners" \in x_out.done =>
        LET offers == corner_offers(x_ev)
        IN  returns_pair_of(offers, x_out.corners.outcomes, last_line(offers))
    /\ "app_corners" \in x_out.done =>
        LET offers == app_corner_offers(x_ev)
        IN  returns_pair_of(offers, x_out.app_corners, last_line(offers))

\* both extractors have returned the pair of the last line for an event whose
\* bookmakers offer Over and Under at two lines, the first line complete as well
C7_Witness ==
    /\ {"corners", "app_corners"} \subseteq x_out.done
    /\ LET offers == corner_offers(x_ev)
       IN  /\ lines_disagree(offers)
           /\ first_line(offers) # last_line(offers)
           /\ both_at(offers, first_line(offers))
           /\ both_at(offers, last_line(offers))
           /\ pair_at(x_out.corners.outcomes, last_line(offers))
           /\ pair_at(x_out.app_corners, last_line(offers))

\* C8: a returned corners pair is an Over and an Under that carry the same line.
C8_PairCarriesOneLine ==
    /\ ("corners" \in x_out.done /\ x_out.corners.outcomes # <<>>) =>
        /\ lower(x_out.corners.outcomes[1][1][1]) = s_over
        /\ lower(x_out.corners.outcomes[2][1][1]) = s_under
        /\ x_out.corners.outcomes[1][1][2] = x_out.corners.outcomes[2][1][2]
    /\ ("app_corners" \in x_out.done /\ x_out.app_corners # <<>>) =>
        /\ lower(x_out.app_corners[1][1][1]) = s_over
        /\ lower(x_out.app_corners[2][1][1]) = s_under
        /\ x_out.app_corners[1][1][2] = x_out.app_corners[2][1][2]


\* some h2h offer of the event has a name that resolves to the outcome sem
some_resolves_to(sem, ev) ==
    \E b \in 1..Len(ev.bookmakers) :
        \E m \in 1..Len(ev.bookmakers[b].markets) :
            /\ ev.bookmakers[b].markets[m].key = s_h2h
            /\ \E o \in 1..Len(ev.bookmakers[b].markets[m].outcomes) :
                  resolves_to(ev.bookmakers[b].markets[m].outcomes[o].name, sem, ev)
all_three_resolve(ev) ==
    some_resolves_to(s_Home, ev) /\ some_resolves_to(s_Draw, ev) /\ some_resolves_to(s_Away, ev)

\* the labels of an outcome set, in order
labels_of(outcomes) == [k \in 1..Len(outcomes) |-> outcomes[k][1]]

\* C14: the 1X2 extraction fails closed: when the home side, the Draw or the away
\* side cannot be resolved among the offered names, both programs produce no 1X2
\* outcome set for the event (the notifier (None, []), on which line 243 goes on to
\* the next event); when all three resolve, the set has exactly the three outcomes
\* Home, Draw, Away, in this order.
C14_1X2FailsClosed ==
    /\ "h2h" \in x_out.done =>
          IF all_three_resolve(x_ev)
          THEN labels_of(x_out.h2h.outcomes) = <<s_Home, s_Draw, s_Away>>
          ELSE x_out.h2h = NoOutcomes
    /\ "app_h2h" \in x_out.done =>
          IF all_three_resolve(x_ev)
          THEN labels_of(x_out.app_h2h) = <<s_Home, s_Draw, s_Away>>
          ELSE x_out.app_h2h = <<>>

\* both extractors have returned nothing for an event whose offers resolve the home
\* and the away side but no Draw
C14_Witness ==
    /\ {"h2h", "app_h2h"} \subseteq x_out.done
    /\ some_resolves_to(s_Home, x_ev)
    /\ some_resolves_to(s_Away, x_ev)
    /\ ~some_resolves_to(s_Draw, x_ev)
    /\ x_out.h2h.outcomes = <<>>
    /\ x_out.app_h2h = <<>>

----------------------------------------------------------------------------
(* Properties of the bookmaker filters of the scan loop, lines 241-261 of notifier.py *)
(* (SpecTail)                                                                       *)

\* every outcome of the opportunity is at a bookmaker the allowed set lets through
all_books_allowed(outcomes, allowed_norm) ==
    \A k \in 1..Len(outcomes) : is_allowed(outcomes[k][3], allowed_norm)

EXCHANGE_KEYWORDS == { <<"b","e","t","f","a","i","r">> }
PARTNER_KEYWORDS == { s_bet365 }
matches_keyword(name, keywords) == \E k \in keywords : contains(lower(or_empty(name)), k)
exchange_partner_pair(outcomes) ==
    /\ Len(outcomes) = 2
    /\ \/ matches_keyword(outcomes[1][3], EXCHANGE_KEYWORDS) /\ matches_keyword(outcomes[2][3], PARTNER_KEYWORDS)
       \/ matches_keyword(outcomes[2][3], EXCHANGE_KEYWORDS) /\ matches_keyword(outcomes[1][3], PARTNER_KEYWORDS)

C18_EmptyScanKeepsFingerprint ==
    (n_pc = "done") =>
        /\ n_all_arbs = <<>> =>
            /\ n_outcome = "no_arbs"
            /\ state_file = n_hist.start_file
            /\ Len(n_sent) = n_hist.start_sent
        /\ (n_all_arbs # <<>> /\ n_hist.prev_arbs = <<>> /\ n_all_arbs = n_hist.last_nonempty) =>
            /\ n_outcome = "unchanged"
            /\ state_file = hash_arbs_summary(n_all_arbs)
            /\ state_file = n_hist.start_file
            /\ Len(n_sent) = n_hist.start_sent

\* the third of three scans with the lists S, empty, S has returned at line 271
C18_Witness ==
    /\ n_pc = "done"
    /\ n_runs = 3
    /\ n_hist.prev_arbs = <<>>
    /\ n_all_arbs # <<>>
    /\ n_all_arbs = n_hist.last_nonempty
    /\ n_outcome = "unchanged"

----------------------------------------------------------------------------
(* Properties of whole runs of main of notifier.py (Spec) *)

\* how a run ends before the scan begins: a missing setting, the test message, the
\* schedule gate
ENDS_BEFORE_SCAN == {"exit1_telegram", "test_sent", "HTTPError", "gated", "exit1_api_key"}

\* C17: a run of main that passes the schedule gate and scans ends as "no arbs",
\* as "unchanged, not sending" or as "sent", and in no unhandled error.
C17_ScanEndsInDefinedOutcome ==
    (n_pc = "done" /\ n_outcome \notin ENDS_BEFORE_SCAN) =>
        n_outcome \in {"no_arbs", "unchanged", "sent"}

----------------------------------------------------------------------------
(* Properties of two scans at lines 267-272 of notifier.py at once (SpecRace) *)

----------------------------------------------------------------------------
(* Properties of the allowed-bookmakers filter, lines 46-73 of notifier.py (SpecFilter) *)

t_Ladbrooks == <<"L","a","d","b","r","o","o","k","s">>
t_Ladbrokes == <<"L","a","d","b","r","o","k","e","s">>
LADBROKES_SPELLINGS == {t_Ladbrooks, s_ladbroke, t_Ladbrokes}

\* the three spellings, with ALLOWED_BOOKMAKERS set to "Ladbrokes"
ladbrokes_case == f_in.name \in LADBROKES_SPELLINGS /\ f_in.raw = t_Ladbrokes

\* C12 as stated: norm gives "Ladbrooks", "ladbroke" and "Ladbrokes" one and the same
\* string, that of "Ladbrokes", and is_allowed is true of each of the three when
\* the allowed set is built from "Ladbrokes".
C12_SameCanonicalForm ==
    ladbrokes_case =>
        /\ "norm" \in f_out.done => f_out.norm = norm(t_Ladbrokes)
        /\ "is_allowed" \in f_out.done => f_out.is_allowed

\* C12 as amended: norm gives "Ladbrooks" and "Ladbrokes" the string "ladbrokes" and
\* leaves "ladbroke" as it is, a variant listed under "ladbrokes" in
\* ALLOWED_BOOKS_CANON; is_allowed is true of each of the three when the allowed set
\* is built from "Ladbrokes".
C12_LadbrokesSpellingsAllowed ==
    ladbrokes_case =>
        /\ "norm" \in f_out.done =>
              f_out.norm = (IF f_in.name = s_ladbroke THEN s_ladbroke ELSE s_ladbrokes)
        /\ "parse_allowed_env" \in f_out.done => f_out.allowed_norm = {s_ladbrokes}
        /\ "is_allowed" \in f_out.done => f_out.is_allowed

\* "ladbroke" has been normalised to itself and allowed through its variant entry
C12_Witness ==
    /\ f_in.name = s_ladbroke
    /\ f_in.raw = t_Ladbrokes
    /\ f_out.done = {"norm", "parse_allowed_env", "is_allowed"}
    /\ f_out.norm = s_ladbroke
    /\ f_out.norm \notin f_out.allowed_norm
    /\ f_out.is_allowed

============================================================================
